---- MODULE Spec2Model ----
(***************************************************************************)
(* Contacts REST backend.                                                  *)
(*                                                                         *)
(* Spec: the authentication flow of src/api/auth.py (register, login,      *)
(* email confirmation, confirmation resend, password reset request and     *)
(* confirmation) over the user directory of                                *)
(* src/repository/users_repository.py, from an empty directory.            *)
(*                                                                         *)
(* ContactsSpec: the six routes of src/api/contacts.py over the contacts   *)
(* table of src/repository/contacts_repository.py, called by two confirmed *)
(* users and by clients without a valid access token.                      *)
(*                                                                         *)
(* EndToEndSpec: one client going from registration to the deletion of a   *)
(* contact.                                                                *)
(*                                                                         *)
(* ResetReplaySpec: two confirmed users asking for password resets and     *)
(* following the links of the mails they got, any number of times.         *)
(*                                                                         *)
(* ConcurrentContactsSpec, ConcurrentRegisterSpec: two requests handled at *)
(* the same time, each split at the await between its read and its commit. *)
(*                                                                         *)
(* Elsewhere every request is one action.  The state after a request is the *)
(* tables, the request that was served, the HTTP response it got, the      *)
(* background tasks the handler added to its BackgroundTasks object and    *)
(* the number of db.commit() calls that went through.                      *)
(*                                                                         *)
(* A user row holds every column of the users table but created_at, which  *)
(* no route reads.  The helpers of src/services/auth_service.py (Hash, the  *)
(* token functions, get_current_user) and the texts of                     *)
(* src/conf/messages.py follow spec 4.1, 4.2, 6 and 7.                     *)
(***************************************************************************)
EXTENDS Integers, Sequences, FiniteSets, TLC

VARIABLES users, contacts, contact_seq, now, request, response,
          background_tasks, commits, scenario, mailbox, sessions

vars == <<users, contacts, contact_seq, now, request, response,
          background_tasks, commits, scenario, mailbox, sessions>>

\* ------------------------------------------------------------------ bounds
\* A client keeps at most MaxMails password-reset mails and follows the link
\* of each at most MaxFollows times.
MaxMails == 2
MaxFollows == 2

\* The clock runs from 0 to MaxTime.
MaxTime == 1
\* The contacts table hands out the ids 1..MaxContacts.
MaxContacts == 2

\* ---------------------------------------------------------- input domains
\* Python's None, where the value is otherwise a string
None == "None"
\* Python's None, where the value is otherwise an object (a row, a token, a
\* digest, a response body)
Null == [none |-> TRUE]

Usernames == {"agent007", "agent008"}
Emails == {"agent007@gmail.com", "agent008@gmail.com"}
Passwords == {"12345678", "password"}
Salts == {"salt1"}

\* the value Gravatar(email).get_image() yields, None when it raised ValueError
Avatars == {"gravatar.jpg", None}

\* src/database/models.py: class UserRole
UserRole == {"user", "admin"}

\* ------------------------------------------------------------- src/conf/messages
USER_EMAIL_ALREADY_EXISTS == "USER_EMAIL_ALREADY_EXISTS"
USER_NAME_ALREADY_EXISTS == "USER_NAME_ALREADY_EXISTS"
INVALID_CREDENTIALS == "INVALID_CREDENTIALS"
USER_NOT_CONFIRMED == "USER_NOT_CONFIRMED"
EMAIL_ALREADY_CONFIRMED == "EMAIL_ALREADY_CONFIRMED"
EMAIL_CONFIRMED == "EMAIL_CONFIRMED"
CHECK_YOUR_EMAIL == "CHECK_YOUR_EMAIL"
EMAIL_NOT_CONFIRMED == "EMAIL_NOT_CONFIRMED"
INVALID_OR_EXPIRED_TOKEN == "INVALID_OR_EXPIRED_TOKEN"
USER_WITH_SUCH_EMAIL_NOT_FOUND == "USER_WITH_SUCH_EMAIL_NOT_FOUND"
PASSWORD_CHANGED == "PASSWORD_CHANGED"
VERIFICATION_ERROR == "Verification error"

\* ------------------------------------------------------------ HTTP responses
\* raise HTTPException(status_code, detail, headers)
HTTPException(status_code, detail, headers) ==
    [status |-> status_code, detail |-> detail, message |-> None,
     body |-> Null, headers |-> headers]

\* return {"message": text} from a route without status_code: 200
MessageResponse(text) ==
    [status |-> 200, detail |-> None, message |-> text,
     body |-> Null, headers |-> None]

\* a route's return value serialized under its response_model
BodyResponse(status_code, content) ==
    [status |-> status_code, detail |-> None, message |-> None,
     body |-> content, headers |-> None]

\* what the server answers when the return value does not validate against
\* the route's response_model
ResponseValidationError ==
    [status |-> 500, detail |-> "Internal Server Error", message |-> None,
     body |-> Null, headers |-> None]

\* ---------------------------------------------- Credential Hasher (spec 4.1)
\* Hash().get_password_hash: salted one-way transform; the digest carries its
\* salt and is never the plaintext.
get_password_hash(password, salt) ==
    [alg |-> "bcrypt", salt |-> salt, digest |-> <<salt, password>>]

\* Hash().verify_password: true iff the plaintext hashes to the digest under
\* the digest's own salt
verify_password(plain_password, hashed_password) ==
    hashed_password = get_password_hash(plain_password, hashed_password.salt)

Hashes == {get_password_hash(p, s) : p \in Passwords, s \in Salts}

\* ------------------------------------------------- Token Service (spec 4.2)
\* time-to-live of the tokens create_access_token issues, in clock ticks
ACCESS_TOKEN_TTL == 1

\* create_access_token(data): the claims plus an expiry, signed
create_access_token(sub, password, issued_at) ==
    [sub |-> sub, password |-> password, exp |-> issued_at + ACCESS_TOKEN_TTL,
     sig |-> "signed"]

\* jwt.decode succeeds iff the signature is intact and the expiry is ahead
token_verifies(token, time) ==
    /\ token.sig = "signed"
    /\ time < token.exp

\* get_email_from_token: the subject, none when verification fails
get_email_from_token(token, time) ==
    IF token_verifies(token, time) THEN token.sub ELSE None

\* get_password_from_token: the auxiliary claim, none when verification fails
\* or the token carries no such claim
get_password_from_token(token, time) ==
    IF token_verifies(token, time) THEN token.password ELSE Null

\* The token strings a client can present: tokens the signing key signed at
\* time 0 (tokens are self-contained and outlive the directory's content, so
\* their subject need not be in the directory), one of them with its
\* signature broken, and a string that is no token at all.
SignedTokens ==
    [sub : Emails \cup {"agent007"}, password : Hashes \cup {Null},
     exp : {ACCESS_TOKEN_TTL}, sig : {"signed"}]

TamperedTokens ==
    [sub : {"agent007@gmail.com"}, password : Hashes,
     exp : {ACCESS_TOKEN_TTL}, sig : {"tampered"}]

MalformedToken ==
    [sub |-> None, password |-> Null, exp |-> 0, sig |-> "malformed"]

Tokens == SignedTokens \cup TamperedTokens \cup {MalformedToken}

\* ------------------------------ src/repository/users_repository.py, the rows
\* scalar_one_or_none() of SELECT ... WHERE column = value
scalar_one_or_none(rows) ==
    IF rows = {} THEN Null ELSE CHOOSE u \in rows : TRUE

Rows(table) == {table[i] : i \in 1..Len(table)}

get_user_by_id(table, user_id) ==
    scalar_one_or_none({u \in Rows(table) : u.id = user_id})

get_user_by_username(table, username) ==
    scalar_one_or_none({u \in Rows(table) : u.username = username})

get_user_by_email(table, email) ==
    scalar_one_or_none({u \in Rows(table) : u.email = email})

\* User(**body.model_dump(exclude={"password"}), hashed_password=body.password,
\* avatar=avatar); add, commit, refresh: the row gets the next id, confirmed
\* defaults to False
create_user(table, body, avatar) ==
    Append(table,
           [id |-> Len(table) + 1,
            username |-> body.username,
            email |-> body.email,
            hashed_password |-> body.password,
            avatar |-> avatar,
            confirmed |-> FALSE,
            role |-> body.role])

\* mutant: the update is not restricted to the row of that email
repository_confirmed_email_every_row(table, email) ==
    [i \in 1..Len(table) |-> [table[i] EXCEPT !.confirmed = TRUE]]

\* user = get_user_by_email(email); user.confirmed = True; commit
repository_confirmed_email(table, email) ==
    [i \in 1..Len(table) |->
        IF table[i].email = email
        THEN [table[i] EXCEPT !.confirmed = TRUE]
        ELSE table[i]]

\* mutant: the update is not restricted to the row of that id
reset_password_every_row(table, user_id, password) ==
    [i \in 1..Len(table) |-> [table[i] EXCEPT !.hashed_password = password]]

\* mutant: the update raises the role as well
reset_password_and_role(table, user_id, password) ==
    [i \in 1..Len(table) |->
        IF table[i].id = user_id
        THEN [table[i] EXCEPT !.hashed_password = password, !.role = "admin"]
        ELSE table[i]]

\* mutant: the new digest is not written
reset_password_not_written(table, user_id, password) ==
    table

\* user = get_user_by_id(user_id); if user: user.hashed_password = password
reset_password(table, user_id, password) ==
    [i \in 1..Len(table) |->
        IF table[i].id = user_id
        THEN [table[i] EXCEPT !.hashed_password = password]
        ELSE table[i]]

\* ------------------------------------------------ src/schemas/users.py: User
\* the response model of /register: id, username, email, avatar, role; every
\* field is required, avatar is a str
UserSchema(user) ==
    [id |-> user.id, username |-> user.username, email |-> user.email,
     avatar |-> user.avatar, role |-> user.role]

UserSchemaValidates(user) == user.avatar # None

\* --------------------------------------------- src/services/email_service.py
\* background_tasks.add_task(send_confirm_email, email, username, base_url)
send_confirm_email(to_email, username) ==
    [task |-> "send_confirm_email", to_email |-> to_email,
     username |-> username, reset_token |-> Null]

\* background_tasks.add_task(send_reset_password_email, to_email=..., ...)
send_reset_password_email(to_email, username, reset_token) ==
    [task |-> "send_reset_password_email", to_email |-> to_email,
     username |-> username, reset_token |-> reset_token]

\* the end-to-end scenario is not running
NoScenario == [step |-> 0]

\* the requests that are being handled at the same time, each in its own
\* database session: two slots, none of them taken
Slots == {1, 2}

NoSessions == [slot \in Slots |-> [phase |-> "idle"]]

\* ----------------------------------------------------------- the requests
Request(op, username, email, password, role, token) ==
    [op |-> op, username |-> username, email |-> email, password |-> password,
     role |-> role, token |-> token]

\* the state a handler leaves: the table, the response, the tasks it added,
\* the commits it made
Outcome(table, resp, tasks, n_commits) ==
    [users |-> table, response |-> resp, background_tasks |-> tasks,
     commits |-> n_commits]

\* one request to an auth route
Answer(req, outcome) ==
    /\ request' = req
    /\ users' = outcome.users
    /\ response' = outcome.response
    /\ background_tasks' = outcome.background_tasks
    /\ commits' = outcome.commits
    /\ UNCHANGED <<now, contacts, contact_seq, mailbox, sessions>>

Serve(req, outcome) ==
    /\ Answer(req, outcome)
    /\ UNCHANGED scenario

\* ------------------------------------- src/api/auth.py: POST /auth/register
\* mutant: the two lookups in the other order
register_conflict_username_first(table, user_data) ==
    IF get_user_by_username(table, user_data.username) # Null
    THEN USER_NAME_ALREADY_EXISTS
    ELSE IF get_user_by_email(table, user_data.email) # Null
         THEN USER_EMAIL_ALREADY_EXISTS
         ELSE None

\* lines 44-56: the email lookup, then the username lookup
register_conflict(table, user_data) ==
    IF get_user_by_email(table, user_data.email) # Null
    THEN USER_EMAIL_ALREADY_EXISTS
    ELSE IF get_user_by_username(table, user_data.username) # Null
         THEN USER_NAME_ALREADY_EXISTS
         ELSE None

\* lines 57-63: hash, create, queue the confirmation email, return the user
\* under response_model=User, status 201
register_create(table, user_data, salt, avatar) ==
    LET hashed == get_password_hash(user_data.password, salt)
        body == [user_data EXCEPT !.password = hashed]
        table2 == create_user(table, body, avatar)
        new_user == table2[Len(table2)]
    IN  Outcome(table2,
                IF UserSchemaValidates(new_user)
                THEN BodyResponse(201, UserSchema(new_user))
                ELSE ResponseValidationError,
                <<send_confirm_email(new_user.email, new_user.username)>>, 1)

register_user(table, user_data, salt, avatar) ==
    LET conflict == register_conflict(table, user_data)
    IN  IF conflict # None
        THEN Outcome(table, HTTPException(409, conflict, None), <<>>, 0)
        ELSE register_create(table, user_data, salt, avatar)

\* the request bodies of tests/test_integration_auth.py (user_data,
\* user_data_unique_email, user_data_unique) and one that asks for the admin
\* role
UserCreate ==
    { [username |-> "agent007", email |-> "agent007@gmail.com",
       password |-> "12345678", role |-> "user"],
      [username |-> "agent007", email |-> "agent008@gmail.com",
       password |-> "12345678", role |-> "user"],
      [username |-> "agent008", email |-> "agent008@gmail.com",
       password |-> "12345678", role |-> "user"],
      [username |-> "agent008", email |-> "agent007@gmail.com",
       password |-> "password", role |-> "admin"] }

Register ==
    \E user_data \in UserCreate, salt \in Salts, avatar \in Avatars :
        Serve(Request("register", user_data.username, user_data.email,
                      user_data.password, user_data.role, Null),
              register_user(users, user_data, salt, avatar))

\* ---------------------------------------- src/api/auth.py: POST /auth/login
\* mutant: the password is not checked
login_rejects_unknown_user_only(user, password) ==
    user = Null

\* line 76: if not user or not Hash().verify_password(...)
login_rejects(user, password) ==
    user = Null \/ ~verify_password(password, user.hashed_password)

\* mutant: the confirmed flag is not checked
login_not_confirmed_ignored(user) ==
    FALSE

\* line 83: if not user.confirmed
login_not_confirmed(user) ==
    ~user.confirmed

\* mutant: the subject of the access token is the email
login_token_of_email(user, time) ==
    create_access_token(user.email, Null, time)

\* line 89: create_access_token(data={"sub": user.username})
login_token_of(user, time) ==
    create_access_token(user.username, Null, time)

login_user(table, username, password, time) ==
    LET user == get_user_by_username(table, username)
    IN  IF login_rejects(user, password)
        THEN Outcome(table, HTTPException(401, INVALID_CREDENTIALS, "Bearer"), <<>>, 0)
        ELSE IF login_not_confirmed(user)
             THEN Outcome(table, HTTPException(401, USER_NOT_CONFIRMED, None), <<>>, 0)
             ELSE Outcome(table,
                          BodyResponse(200,
                              [access_token |-> login_token_of(user, time),
                               token_type |-> "bearer"]),
                          <<>>, 0)

Login ==
    \E username \in Usernames, password \in Passwords :
        Serve(Request("login", username, None, password, None, Null),
              login_user(users, username, password, now))

\* ------------------- src/api/auth.py: GET /auth/confirmed_email/{token}
\* mutant: the flag is not looked at
already_confirmed_unchecked(user) ==
    FALSE

\* line 105: if user.confirmed
already_confirmed(user) ==
    user.confirmed

confirmed_email(table, token, time) ==
    LET email == get_email_from_token(token, time)
        user == get_user_by_email(table, email)
    IN  IF user = Null
        THEN Outcome(table, HTTPException(400, VERIFICATION_ERROR, None), <<>>, 0)
        ELSE IF already_confirmed(user)
             THEN Outcome(table, MessageResponse(EMAIL_ALREADY_CONFIRMED), <<>>, 0)
             ELSE Outcome(repository_confirmed_email(table, email),
                          MessageResponse(EMAIL_CONFIRMED), <<>>, 1)

ConfirmEmail ==
    \E token \in Tokens :
        Serve(Request("confirmed_email", None, None, None, None, token),
              confirmed_email(users, token, now))

\* -------------------------------- src/api/auth.py: POST /auth/request_email
\* mutant: the flag is not looked at
resend_already_confirmed_unchecked(user) ==
    FALSE

\* line 124: if user and user.confirmed
resend_already_confirmed(user) ==
    user # Null /\ user.confirmed

request_email(table, email) ==
    LET user == get_user_by_email(table, email)
    IN  IF resend_already_confirmed(user)
        THEN Outcome(table, MessageResponse(EMAIL_ALREADY_CONFIRMED), <<>>, 0)
        ELSE Outcome(table, MessageResponse(CHECK_YOUR_EMAIL),
                     IF user # Null
                     THEN <<send_confirm_email(user.email, user.username)>>
                     ELSE <<>>,
                     0)

RequestEmail ==
    \E email \in Emails :
        Serve(Request("request_email", None, email, None, None, Null),
              request_email(users, email))

\* ------------------------------- src/api/auth.py: POST /auth/reset_password
\* mutant: an unknown email is reported
reset_unknown_email_reported ==
    HTTPException(404, USER_WITH_SUCH_EMAIL_NOT_FOUND, None)

\* lines 146-148: if not user: return {"message": CHECK_YOUR_EMAIL}
reset_unknown_email ==
    MessageResponse(CHECK_YOUR_EMAIL)

\* mutant: the subject is the username, as in login_user
reset_token_of_username(user, hashed_password, time) ==
    create_access_token(user.username, hashed_password, time)

\* lines 158-160: create_access_token({"sub": user.email, "password": hashed})
reset_token_of(user, hashed_password, time) ==
    create_access_token(user.email, hashed_password, time)

reset_password_request(table, body, salt, time) ==
    LET user == get_user_by_email(table, body.email)
    IN  IF user = Null
        THEN Outcome(table, reset_unknown_email, <<>>, 0)
        ELSE IF ~user.confirmed
             THEN Outcome(table, HTTPException(400, EMAIL_NOT_CONFIRMED, None), <<>>, 0)
             ELSE LET hashed_password == get_password_hash(body.password, salt)
                      reset_token == reset_token_of(user, hashed_password, time)
                  IN  Outcome(table, MessageResponse(CHECK_YOUR_EMAIL),
                              <<send_reset_password_email(body.email, user.username,
                                                          reset_token)>>,
                              0)

ResetPasswordRequest ==
    \E email \in Emails, password \in Passwords, salt \in Salts :
        Serve(Request("reset_password", None, email, password, None, Null),
              reset_password_request(users, [email |-> email, password |-> password],
                                     salt, now))

\* -------------- src/api/auth.py: GET /auth/confirm_reset_password/{token}
\* mutant: only the subject is looked at
reset_token_unusable_without_subject(email, hashed_password) ==
    email = None

\* line 182: if not email or not hashed_password
reset_token_unusable(email, hashed_password) ==
    email = None \/ hashed_password = Null

confirm_reset_password(table, token, time) ==
    LET email == get_email_from_token(token, time)
        hashed_password == get_password_from_token(token, time)
        user == get_user_by_email(table, email)
    IN  IF reset_token_unusable(email, hashed_password)
        THEN Outcome(table, HTTPException(400, INVALID_OR_EXPIRED_TOKEN, None), <<>>, 0)
        ELSE IF user = Null
             THEN Outcome(table,
                          HTTPException(404, USER_WITH_SUCH_EMAIL_NOT_FOUND, None),
                          <<>>, 0)
             ELSE Outcome(reset_password(table, user.id, hashed_password),
                          MessageResponse(PASSWORD_CHANGED), <<>>, 1)

ConfirmResetPassword ==
    \E token \in Tokens :
        Serve(Request("confirm_reset_password", None, None, None, None, token),
              confirm_reset_password(users, token, now))

\* ======================================================================
\* Contacts: src/api/contacts.py, src/services/contacts_service.py and
\* src/repository/contacts_repository.py over the contacts table
\* ======================================================================
\* The table is the sequence of its rows in storage order.  A text column
\* that a query searches is a sequence of characters; a date is a day number
\* in a record, so that a missing date (NULL) is Null; date.today() is the
\* day the clock shows.  Query parameters and bodies are those that pass
\* FastAPI's validation (days >= 1, ContactModel), skip and limit are
\* naturals.
Date(day) == [day |-> day]

today(time) == Date(time)

John == <<"J", "o", "h", "n">>
Jane == <<"J", "a", "n", "e">>
Doe == <<"D", "o", "e">>
Roe == <<"R", "o", "e">>
john_doe_email == <<"j", "d", "@", "x", ".", "i", "o">>
jane_doe_email == <<"j", "a", "@", "x", ".", "i", "o">>
john_roe_email == <<"j", "r", "@", "x", ".", "i", "o">>

\* the fields of ContactModel without a default
RequiredFields == {"first_name", "last_name", "email", "phone_number"}

\* a validated ContactModel: its values and the fields the request set
\* (model_fields_set), which model_dump(exclude_unset=True) keeps
ContactModel(first_name, last_name, email, phone_number, birth_date, info, fields_set) ==
    [first_name |-> first_name, last_name |-> last_name, email |-> email,
     phone_number |-> phone_number, birth_date |-> birth_date, info |-> info,
     fields_set |-> fields_set]

\* the request bodies: the payload of the tests, a second contact, one with
\* the first one's email, one with the first one's phone number that leaves
\* birth_date and info out, and one that sends both as null
ContactBodies ==
    { ContactModel(John, Doe, john_doe_email, "123-456-7890", Date(1), None,
                   RequiredFields \cup {"birth_date"}),
      ContactModel(Jane, Doe, jane_doe_email, "987-654-3210", Date(3), "friend",
                   RequiredFields \cup {"birth_date", "info"}),
      ContactModel(Jane, Roe, john_doe_email, "555-555-5555", Date(0), None,
                   RequiredFields \cup {"birth_date"}),
      ContactModel(John, Roe, john_roe_email, "123-456-7890", Null, None,
                   RequiredFields),
      ContactModel(Jane, Doe, jane_doe_email, "987-654-3210", Null, None,
                   RequiredFields \cup {"birth_date", "info"}) }

\* the query strings of GET /contacts/: the defaults, a first-name filter, a
\* last-name and email filter with a page, a page of one, and a first-name
\* filter that holds a LIKE wildcard
ContactQueries ==
    { [first_name |-> <<>>, last_name |-> <<>>, email |-> <<>>,
       skip |-> 0, limit |-> 100],
      [first_name |-> <<"J", "o">>, last_name |-> <<>>, email |-> <<>>,
       skip |-> 0, limit |-> 100],
      [first_name |-> <<>>, last_name |-> <<"o", "e">>, email |-> <<"@", "x">>,
       skip |-> 1, limit |-> 1],
      [first_name |-> <<>>, last_name |-> <<>>, email |-> <<>>,
       skip |-> 0, limit |-> 1],
      [first_name |-> <<"J", "_", "n">>, last_name |-> <<>>, email |-> <<>>,
       skip |-> 0, limit |-> 100] }

\* days: int = Query(default=7, ge=1)
BirthdayDays == {1, 2}

CONTACT_NOT_FOUND == "CONTACT_NOT_FOUND"
UNAUTHORIZED == "UNAUTHORIZED"

\* detail of the 400 of ContactService.create_contact
ContactAlreadyExists(email, phone_number) ==
    <<"Contact with '", email, "' email or '", phone_number,
      "' phone number already exists.">>

\* an exception no route catches: 500
InternalServerError ==
    [status |-> 500, detail |-> "Internal Server Error", message |-> None,
     body |-> Null, headers |-> None]

\* ------------------------------------ src/database/models.py: class Contact
\* x LIKE pattern: % matches any run of characters, _ any one character
RECURSIVE like(_, _)
like(text, pattern) ==
    IF pattern = <<>>
    THEN text = <<>>
    ELSE IF Head(pattern) = "%"
         THEN \E k \in 0..Len(text) :
                  like(SubSeq(text, k + 1, Len(text)), Tail(pattern))
         ELSE /\ text # <<>>
              /\ Head(pattern) = "_" \/ Head(pattern) = Head(text)
              /\ like(Tail(text), Tail(pattern))

\* Contact.column.contains(other): column LIKE '%' || other || '%'
contains(column, other) ==
    like(column, <<"%">> \o other \o <<"%">>)

\* the constraints of the table: email and phone_number are unique,
\* birth_date is nullable=False
integrity(table) ==
    /\ \A i \in 1..Len(table) : table[i].birth_date # Null
    /\ \A i, j \in 1..Len(table) :
           i # j => /\ table[i].email # table[j].email
                    /\ table[i].phone_number # table[j].phone_number

\* what a repository call leaves: the table, the id sequence, the value it
\* returned and the commits it made
Stored(table, seq, result, n_commits) ==
    [contacts |-> table, contact_seq |-> seq, result |-> result,
     commits |-> n_commits]

IntegrityError == [raised |-> "IntegrityError"]

\* mutant: the table has no constraints
db_commit_unchecked(table, seq, new_table, new_seq, result) ==
    Stored(new_table, new_seq, result, 1)

\* await self.db.commit(): the flush raises IntegrityError when the new
\* table breaks a constraint, and the transaction is rolled back
db_commit(table, seq, new_table, new_seq, result) ==
    IF integrity(new_table)
    THEN Stored(new_table, new_seq, result, 1)
    ELSE Stored(table, seq, IntegrityError, 0)

\* -------------------------------- src/repository/contacts_repository.py
Min(a, b) == IF a < b THEN a ELSE b

\* select(Contact).filter_by(user=user).where(...contains...) x3
\* .offset(skip).limit(limit)
get_contacts(table, first_name, last_name, email, skip, limit, user) ==
    LET matches == SelectSeq(table, LAMBDA c :
                       /\ c.user_id = user.id
                       /\ contains(c.first_name, first_name)
                       /\ contains(c.last_name, last_name)
                       /\ contains(c.email, email))
    IN  SubSeq(matches, skip + 1, Min(Len(matches), skip + limit))

\* mutant: the owner is not part of the filter
get_contact_by_id_of_anyone(table, contact_id, user) ==
    scalar_one_or_none({c \in Rows(table) : c.id = contact_id})

\* select(Contact).filter_by(id=contact_id, user=user); scalar_one_or_none()
get_contact_by_id(table, contact_id, user) ==
    scalar_one_or_none({c \in Rows(table) :
                           c.id = contact_id /\ c.user_id = user.id})

\* Contact(**body.model_dump(exclude_unset=True), user=user): a column the
\* body did not set is NULL; id, created_at and updated_at are the table's
\* defaults
Contact(body, user, id, time) ==
    [id |-> id,
     first_name |-> body.first_name,
     last_name |-> body.last_name,
     email |-> body.email,
     phone_number |-> body.phone_number,
     birth_date |-> IF "birth_date" \in body.fields_set
                    THEN body.birth_date ELSE Null,
     created_at |-> time,
     updated_at |-> time,
     user_id |-> user.id,
     info |-> IF "info" \in body.fields_set THEN body.info ELSE None]

\* add, commit, refresh, return contact; the id is the next of the table's
\* sequence, which a failed insert does not use up
create_contact(table, seq, body, user, time) ==
    LET contact == Contact(body, user, seq + 1, time)
    IN  db_commit(table, seq, Append(table, contact), seq + 1, contact)

\* for key, value in body.dict(exclude_unset=True).items():
\*     setattr(contact, key, value)
\* updated_at has onupdate=func.now(): it moves when the UPDATE changes a column
setattrs(contact, body, time) ==
    LET assigned ==
            [contact EXCEPT
                !.first_name = body.first_name,
                !.last_name = body.last_name,
                !.email = body.email,
                !.phone_number = body.phone_number,
                !.birth_date = IF "birth_date" \in body.fields_set
                               THEN body.birth_date ELSE @,
                !.info = IF "info" \in body.fields_set THEN body.info ELSE @]
    IN  IF assigned = contact
        THEN contact
        ELSE [assigned EXCEPT !.updated_at = time]

update_contact(table, seq, contact_id, body, user, time) ==
    LET contact == get_contact_by_id(table, contact_id, user)
    IN  IF contact = Null
        THEN Stored(table, seq, Null, 0)
        ELSE LET updated == setattrs(contact, body, time)
                 new_table == [i \in 1..Len(table) |->
                                  IF table[i].id = contact_id
                                  THEN updated ELSE table[i]]
             IN  db_commit(table, seq, new_table, seq, updated)

\* mutant: every row of the owner is deleted
delete_every_contact_of_owner(table, contact) ==
    SelectSeq(table, LAMBDA c : c.user_id # contact.user_id)

\* await self.db.delete(contact)
delete(table, contact) ==
    SelectSeq(table, LAMBDA c : c.id # contact.id)

remove_contact(table, seq, contact_id, user) ==
    LET contact == get_contact_by_id(table, contact_id, user)
    IN  IF contact = Null
        THEN Stored(table, seq, Null, 0)
        ELSE db_commit(table, seq, delete(table, contact), seq, contact)

\* select(Contact).where(or_(Contact.email == email,
\*                           Contact.phone_number == phone_number))
is_contact_exists(table, email, phone_number, user) ==
    \E c \in Rows(table) : c.email = email \/ c.phone_number = phone_number

\* .order_by(Contact.birth_date.asc())
RECURSIVE order_by_birth_date(_)
order_by_birth_date(rows) ==
    IF rows = <<>>
    THEN <<>>
    ELSE LET first == Head(rows)
             rest == order_by_birth_date(Tail(rows))
         IN  SelectSeq(rest, LAMBDA c : c.birth_date.day < first.birth_date.day)
             \o <<first>>
             \o SelectSeq(rest, LAMBDA c : c.birth_date.day >= first.birth_date.day)

\* mutant: the upper bound is exclusive
in_birthday_range_exclusive(birth_date, from_date, upcoming_date) ==
    /\ birth_date # Null
    /\ birth_date.day >= from_date.day
    /\ birth_date.day < upcoming_date.day

\* Contact.birth_date.is_not(None), Contact.birth_date >= today,
\* Contact.birth_date <= upcoming_date
in_birthday_range(birth_date, from_date, upcoming_date) ==
    /\ birth_date # Null
    /\ birth_date.day >= from_date.day
    /\ birth_date.day <= upcoming_date.day

\* today = date.today(); upcoming_date = today + timedelta(days=days); the
\* statement has no filter on the owner
get_upcoming_birthdays(table, days, user, time) ==
    LET upcoming_date == Date(today(time).day + days)
    IN  order_by_birth_date(
            SelectSeq(table, LAMBDA c :
                in_birthday_range(c.birth_date, today(time), upcoming_date)))

\* ------------------------------------------- src/schemas/contacts.py
\* ContactResponse: the fields of ContactModel, id, created_at, updated_at
ContactResponse(contact) ==
    [id |-> contact.id,
     first_name |-> contact.first_name,
     last_name |-> contact.last_name,
     email |-> contact.email,
     phone_number |-> contact.phone_number,
     birth_date |-> contact.birth_date,
     info |-> contact.info,
     created_at |-> contact.created_at,
     updated_at |-> contact.updated_at]

\* response_model=List[ContactResponse]
ContactResponses(rows) ==
    [i \in 1..Len(rows) |-> ContactResponse(rows[i])]

\* ------------------------------ get_current_user (spec 6: bearer tokens)
\* the user a bearer token stands for: none when the header is missing, the
\* token does not verify, or its subject is no user's username
get_current_user(table, token, time) ==
    IF token = Null
    THEN Null
    ELSE IF ~token_verifies(token, time)
         THEN Null
         ELSE get_user_by_username(table, token.sub)

Unauthorized == HTTPException(401, UNAUTHORIZED, "Bearer")

\* the Authorization headers a client can send at a time: the access tokens
\* login issues to the two users at that time; and those a route rejects: no
\* header, a token with a broken signature, a token issued so long before
\* that it has expired
FreshTokens(time) ==
    {create_access_token(u, Null, time) : u \in Usernames}

ExpiredToken(time) ==
    create_access_token("agent008", Null, time - ACCESS_TOKEN_TTL)

RejectedTokens(time) ==
    {Null,
     [create_access_token("agent008", Null, time) EXCEPT !.sig = "tampered"],
     ExpiredToken(time)}

\* --------------------------------------------------- src/api/contacts.py
ContactsRequest(op, token, contact_id, body, query, days) ==
    [op |-> op, token |-> token, contact_id |-> contact_id, body |-> body,
     query |-> query, days |-> days]

ContactsOutcome(table, seq, resp, n_commits) ==
    [contacts |-> table, contact_seq |-> seq, response |-> resp,
     commits |-> n_commits]

\* one request to a contacts route
AnswerContacts(req, outcome) ==
    /\ request' = req
    /\ contacts' = outcome.contacts
    /\ contact_seq' = outcome.contact_seq
    /\ response' = outcome.response
    /\ commits' = outcome.commits
    /\ background_tasks' = <<>>
    /\ UNCHANGED <<users, now, mailbox, sessions>>

ServeContacts(req, outcome) ==
    /\ AnswerContacts(req, outcome)
    /\ UNCHANGED scenario

\* mutant: the routes take the first user of the directory, whatever the
\* header
Depends_first_user(table, token, time) ==
    table[1]

\* user: User = Depends(get_current_user)
Depends_get_current_user(table, token, time) ==
    get_current_user(table, token, time)

\* GET /contacts/birthdays
api_get_upcoming_birthdays(table, seq, days, user, time) ==
    IF user = Null
    THEN ContactsOutcome(table, seq, Unauthorized, 0)
    ELSE ContactsOutcome(table, seq,
             BodyResponse(200,
                 ContactResponses(get_upcoming_birthdays(table, days, user, time))),
             0)

\* GET /contacts/
api_get_contacts(table, seq, query, user) ==
    IF user = Null
    THEN ContactsOutcome(table, seq, Unauthorized, 0)
    ELSE ContactsOutcome(table, seq,
             BodyResponse(200,
                 ContactResponses(
                     get_contacts(table, query.first_name, query.last_name,
                                  query.email, query.skip, query.limit, user))),
             0)

\* GET /contacts/{contact_id}
api_get_contact(table, seq, contact_id, user) ==
    IF user = Null
    THEN ContactsOutcome(table, seq, Unauthorized, 0)
    ELSE LET contact == get_contact_by_id(table, contact_id, user)
         IN  IF contact = Null
             THEN ContactsOutcome(table, seq,
                      HTTPException(404, CONTACT_NOT_FOUND, None), 0)
             ELSE ContactsOutcome(table, seq,
                      BodyResponse(200, ContactResponse(contact)), 0)

\* what a route answers with the value a repository call returned
ContactsAnswer(stored, status_code) ==
    ContactsOutcome(stored.contacts, stored.contact_seq,
        IF stored.result = IntegrityError
        THEN InternalServerError
        ELSE IF stored.result = Null
             THEN HTTPException(404, CONTACT_NOT_FOUND, None)
             ELSE BodyResponse(status_code, ContactResponse(stored.result)),
        stored.commits)

\* ContactService.create_contact: the duplicate check, then the insert
service_create_contact(table, seq, body, user, time) ==
    IF is_contact_exists(table, body.email, body.phone_number, user)
    THEN ContactsOutcome(table, seq,
             HTTPException(400, ContactAlreadyExists(body.email, body.phone_number),
                           None),
             0)
    ELSE ContactsAnswer(create_contact(table, seq, body, user, time), 201)

\* POST /contacts/, status_code 201
api_create_contact(table, seq, body, user, time) ==
    IF user = Null
    THEN ContactsOutcome(table, seq, Unauthorized, 0)
    ELSE service_create_contact(table, seq, body, user, time)

\* PUT /contacts/{contact_id}
api_update_contact(table, seq, contact_id, body, user, time) ==
    IF user = Null
    THEN ContactsOutcome(table, seq, Unauthorized, 0)
    ELSE ContactsAnswer(update_contact(table, seq, contact_id, body, user, time),
                        200)

\* DELETE /contacts/{contact_id}
api_remove_contact(table, seq, contact_id, user) ==
    IF user = Null
    THEN ContactsOutcome(table, seq, Unauthorized, 0)
    ELSE ContactsAnswer(remove_contact(table, seq, contact_id, user), 200)

ContactIds == 1..MaxContacts

\* The requests a client sends at a time: every combination of parameters
\* under a fresh token, one combination under each rejected header.
BirthdaysRequests(time) ==
    {ContactsRequest("get_upcoming_birthdays", token, 0, Null, Null, days) :
        token \in FreshTokens(time), days \in BirthdayDays}
    \cup {ContactsRequest("get_upcoming_birthdays", token, 0, Null, Null, 2) :
        token \in RejectedTokens(time)}

GetContactsRequests(time) ==
    {ContactsRequest("get_contacts", token, 0, Null, query, 0) :
        token \in FreshTokens(time), query \in ContactQueries}
    \cup {ContactsRequest("get_contacts", token, 0, Null,
                          [first_name |-> <<>>, last_name |-> <<>>,
                           email |-> <<>>, skip |-> 0, limit |-> 100], 0) :
        token \in RejectedTokens(time)}

GetContactRequests(time) ==
    {ContactsRequest("get_contact", token, contact_id, Null, Null, 0) :
        token \in FreshTokens(time), contact_id \in ContactIds}
    \cup {ContactsRequest("get_contact", token, 1, Null, Null, 0) :
        token \in RejectedTokens(time)}

CreateContactRequests(time) ==
    {ContactsRequest("create_contact", token, 0, body, Null, 0) :
        token \in FreshTokens(time), body \in ContactBodies}
    \cup {ContactsRequest("create_contact", token, 0,
                          ContactModel(John, Doe, john_doe_email, "123-456-7890",
                                       Date(1), None,
                                       RequiredFields \cup {"birth_date"}),
                          Null, 0) :
        token \in RejectedTokens(time)}

UpdateContactRequests(time) ==
    {ContactsRequest("update_contact", token, contact_id, body, Null, 0) :
        token \in FreshTokens(time), contact_id \in ContactIds,
        body \in ContactBodies}
    \cup {ContactsRequest("update_contact", token, 1,
                          ContactModel(John, Roe, john_roe_email, "123-456-7890",
                                       Null, None, RequiredFields),
                          Null, 0) :
        token \in RejectedTokens(time)}

RemoveContactRequests(time) ==
    {ContactsRequest("remove_contact", token, contact_id, Null, Null, 0) :
        token \in FreshTokens(time), contact_id \in ContactIds}
    \cup {ContactsRequest("remove_contact", token, 1, Null, Null, 0) :
        token \in RejectedTokens(time)}

GetUpcomingBirthdays ==
    \E req \in BirthdaysRequests(now) :
        ServeContacts(req,
            api_get_upcoming_birthdays(contacts, contact_seq, req.days,
                Depends_get_current_user(users, req.token, now), now))

GetContacts ==
    \E req \in GetContactsRequests(now) :
        ServeContacts(req,
            api_get_contacts(contacts, contact_seq, req.query,
                Depends_get_current_user(users, req.token, now)))

GetContact ==
    \E req \in GetContactRequests(now) :
        ServeContacts(req,
            api_get_contact(contacts, contact_seq, req.contact_id,
                Depends_get_current_user(users, req.token, now)))

\* the id sequence stops at MaxContacts
CreateContact ==
    /\ contact_seq < MaxContacts
    /\ \E req \in CreateContactRequests(now) :
        ServeContacts(req,
            api_create_contact(contacts, contact_seq, req.body,
                Depends_get_current_user(users, req.token, now), now))

UpdateContact ==
    \E req \in UpdateContactRequests(now) :
        ServeContacts(req,
            api_update_contact(contacts, contact_seq, req.contact_id, req.body,
                Depends_get_current_user(users, req.token, now), now))

RemoveContact ==
    \E req \in RemoveContactRequests(now) :
        ServeContacts(req,
            api_remove_contact(contacts, contact_seq, req.contact_id,
                Depends_get_current_user(users, req.token, now)))

\* ------------------------------------------------------------------ time
Tick ==
    /\ now < MaxTime
    /\ now' = now + 1
    /\ UNCHANGED <<users, contacts, contact_seq, request, response,
                   background_tasks, commits, scenario, mailbox, sessions>>

Init ==
    /\ users = <<>>
    /\ now = 0
    /\ request = Request("none", None, None, None, None, Null)
    /\ response = MessageResponse(None)
    /\ background_tasks = <<>>
    /\ commits = 0
    /\ contacts = <<>>
    /\ contact_seq = 0
    /\ scenario = NoScenario
    /\ mailbox = <<>>
    /\ sessions = NoSessions

Next ==
    \/ Register
    \/ Login
    \/ ConfirmEmail
    \/ RequestEmail
    \/ ResetPasswordRequest
    \/ ConfirmResetPassword
    \/ Tick

Spec == Init /\ [][Next]_vars

\* ------------------------------------------ the contacts routes, two users
\* agent007 and agent008 have registered and confirmed their emails
TwoConfirmedUsers ==
    << [id |-> 1, username |-> "agent007", email |-> "agent007@gmail.com",
        hashed_password |-> get_password_hash("12345678", "salt1"),
        avatar |-> "gravatar.jpg", confirmed |-> TRUE, role |-> "user"],
       [id |-> 2, username |-> "agent008", email |-> "agent008@gmail.com",
        hashed_password |-> get_password_hash("12345678", "salt1"),
        avatar |-> "gravatar.jpg", confirmed |-> TRUE, role |-> "user"] >>

\* the clock shows day 1; agent008 created a contact on day 0
ContactsInit ==
    /\ users = TwoConfirmedUsers
    /\ now = 1
    /\ request = Request("none", None, None, None, None, Null)
    /\ response = MessageResponse(None)
    /\ background_tasks = <<>>
    /\ commits = 0
    /\ contacts = create_contact(<<>>, 0,
                       ContactModel(Jane, Doe, jane_doe_email, "987-654-3210",
                                    Date(3), "friend",
                                    RequiredFields \cup {"birth_date", "info"}),
                       TwoConfirmedUsers[2], 0).contacts
    /\ contact_seq = 1
    /\ scenario = NoScenario
    /\ mailbox = <<>>
    /\ sessions = NoSessions

ContactsNext ==
    \/ GetUpcomingBirthdays
    \/ GetContacts
    \/ GetContact
    \/ CreateContact
    \/ UpdateContact
    \/ RemoveContact

ContactsSpec == ContactsInit /\ [][ContactsNext]_vars

\* ------------------------------------------------ the end-to-end sequence
\* One client on an empty system: register, login, confirm with the token of
\* the confirmation email, login, create a contact, create another one with
\* the same email, delete the first, get it.  scenario holds the step reached
\* and what the client keeps from the steps before.
Scenario(step, user_data, token, body, contact_id) ==
    [step |-> step, user_data |-> user_data, token |-> token, body |-> body,
     contact_id |-> contact_id]

ScenarioRegister ==
    /\ scenario.step = 0
    /\ \E user_data \in UserCreate, salt \in Salts, avatar \in Avatars :
        /\ Answer(Request("register", user_data.username, user_data.email,
                          user_data.password, user_data.role, Null),
                  register_user(users, user_data, salt, avatar))
        /\ scenario' = Scenario(1, user_data, Null, Null, 0)

ScenarioLoginNotConfirmed ==
    /\ scenario.step = 1
    /\ Answer(Request("login", scenario.user_data.username, None,
                      scenario.user_data.password, None, Null),
              login_user(users, scenario.user_data.username,
                         scenario.user_data.password, now))
    /\ scenario' = [scenario EXCEPT !.step = 2]

\* send_email: token_verification = create_email_token({"sub": to_email})
ScenarioConfirm ==
    /\ scenario.step = 2
    /\ LET token == create_access_token(scenario.user_data.email, Null, now)
       IN  Answer(Request("confirmed_email", None, None, None, None, token),
                  confirmed_email(users, token, now))
    /\ scenario' = [scenario EXCEPT !.step = 3]

\* the client keeps the access token of the answer
ScenarioLogin ==
    /\ scenario.step = 3
    /\ LET outcome == login_user(users, scenario.user_data.username,
                                 scenario.user_data.password, now)
       IN  /\ Answer(Request("login", scenario.user_data.username, None,
                             scenario.user_data.password, None, Null),
                     outcome)
           /\ scenario' = [scenario EXCEPT
                              !.step = 4,
                              !.token = IF outcome.response.status = 200
                                        THEN outcome.response.body.access_token
                                        ELSE Null]

\* the client keeps the body it sent and the id of the answer
ScenarioCreate ==
    /\ scenario.step = 4
    /\ \E body \in ContactBodies :
        LET outcome == api_create_contact(contacts, contact_seq, body,
                           Depends_get_current_user(users, scenario.token, now),
                           now)
        IN  /\ AnswerContacts(
                   ContactsRequest("create_contact", scenario.token, 0, body,
                                   Null, 0),
                   outcome)
            /\ scenario' = [scenario EXCEPT
                               !.step = 5,
                               !.body = body,
                               !.contact_id = IF outcome.response.status = 201
                                              THEN outcome.response.body.id
                                              ELSE 0]

ScenarioCreateSameEmail ==
    /\ scenario.step = 5
    /\ \E body \in {b \in ContactBodies : b.email = scenario.body.email} :
        AnswerContacts(
            ContactsRequest("create_contact", scenario.token, 0, body, Null, 0),
            api_create_contact(contacts, contact_seq, body,
                Depends_get_current_user(users, scenario.token, now), now))
    /\ scenario' = [scenario EXCEPT !.step = 6]

ScenarioRemove ==
    /\ scenario.step = 6
    /\ AnswerContacts(
           ContactsRequest("remove_contact", scenario.token, scenario.contact_id,
                           Null, Null, 0),
           api_remove_contact(contacts, contact_seq, scenario.contact_id,
               Depends_get_current_user(users, scenario.token, now)))
    /\ scenario' = [scenario EXCEPT !.step = 7]

ScenarioGet ==
    /\ scenario.step = 7
    /\ AnswerContacts(
           ContactsRequest("get_contact", scenario.token, scenario.contact_id,
                           Null, Null, 0),
           api_get_contact(contacts, contact_seq, scenario.contact_id,
               Depends_get_current_user(users, scenario.token, now)))
    /\ scenario' = [scenario EXCEPT !.step = 8]

EndToEndNext ==
    \/ ScenarioRegister
    \/ ScenarioLoginNotConfirmed
    \/ ScenarioConfirm
    \/ ScenarioLogin
    \/ ScenarioCreate
    \/ ScenarioCreateSameEmail
    \/ ScenarioRemove
    \/ ScenarioGet

EndToEndSpec == Init /\ [][EndToEndNext]_vars

\* ------------------------------------------- password resets, replayed
\* The two confirmed users ask for password resets; send_reset_password_email
\* delivers each reset token to the mailbox of the client, where it stays.
\* The client follows the link of any mail it holds, in any order, and the
\* mail counts how often.
\* the mails the background tasks of a request deliver
Delivered(tasks) ==
    [i \in 1..Len(tasks) |->
        [reset_token |-> tasks[i].reset_token, followed |-> 0]]

\* one request to an auth route by the client of the mailbox
AnswerMail(req, outcome, mails) ==
    /\ request' = req
    /\ users' = outcome.users
    /\ response' = outcome.response
    /\ background_tasks' = outcome.background_tasks
    /\ commits' = outcome.commits
    /\ mailbox' = mails
    /\ UNCHANGED <<now, contacts, contact_seq, scenario, sessions>>

ReplayResetRequest ==
    /\ Len(mailbox) < MaxMails
    /\ \E email \in Emails, password \in Passwords, salt \in Salts :
           LET outcome == reset_password_request(users,
                              [email |-> email, password |-> password], salt, now)
           IN  AnswerMail(Request("reset_password", None, email, password,
                                  None, Null),
                          outcome,
                          mailbox \o Delivered(outcome.background_tasks))

ReplayConfirm ==
    \E i \in 1..Len(mailbox) :
        /\ mailbox[i].followed < MaxFollows
        /\ LET token == mailbox[i].reset_token
           IN  AnswerMail(Request("confirm_reset_password", None, None, None,
                                  None, token),
                          confirm_reset_password(users, token, now),
                          [mailbox EXCEPT ![i].followed = @ + 1])

ResetReplayInit ==
    /\ users = TwoConfirmedUsers
    /\ now = 0
    /\ request = Request("none", None, None, None, None, Null)
    /\ response = MessageResponse(None)
    /\ background_tasks = <<>>
    /\ commits = 0
    /\ contacts = <<>>
    /\ contact_seq = 0
    /\ scenario = NoScenario
    /\ mailbox = <<>>
    /\ sessions = NoSessions

ResetReplayNext ==
    \/ ReplayResetRequest
    \/ ReplayConfirm
    \/ Tick

ResetReplaySpec == ResetReplayInit /\ [][ResetReplayNext]_vars

\* ----------------------------------- contacts requests at the same time
\* Every request has its own AsyncSession (Depends(get_db)) and its handler
\* gives up control at each await.  A request that reads and then commits is
\* two steps: Begin runs it up to the await of the read (the SELECT of
\* get_contact_by_id or of is_contact_exists) and keeps what the session
\* loaded; Commit runs the rest, flush and COMMIT in one step, since the
\* database serializes the writes of a row.  Each slot handles one request.
Session(phase, req, user, loaded, resp, order) ==
    [phase |-> phase, request |-> req, user |-> user, loaded |-> loaded,
     response |-> resp, order |-> order]

\* the slots whose request has been answered
Finished == {slot \in Slots : sessions[slot].phase = "done"}

\* getattr(contact, key) for the keys of ContactModel
attribute(contact, key) ==
    CASE key = "first_name" -> contact.first_name
      [] key = "last_name" -> contact.last_name
      [] key = "email" -> contact.email
      [] key = "phone_number" -> contact.phone_number
      [] key = "birth_date" -> contact.birth_date
      [] key = "info" -> contact.info

\* the attributes with a net change after the setattr loop: the unit of work
\* compares each assigned value with the one the session loaded and puts only
\* those that differ into the UPDATE
changed(loaded, body) ==
    {key \in body.fields_set : attribute(body, key) # attribute(loaded, key)}

StaleDataError == [raised |-> "StaleDataError"]

\* await self.db.commit(); await self.db.refresh(contact) of update_contact:
\* UPDATE contacts SET <changed columns>, updated_at = now() WHERE id = :id,
\* which raises StaleDataError when it matches no row; no UPDATE at all when
\* nothing changed; the refresh reads the row back
flush_update(table, seq, loaded, body, time) ==
    LET keys == changed(loaded, body)
        written(row) ==
            [row EXCEPT
                !.first_name = IF "first_name" \in keys THEN body.first_name ELSE @,
                !.last_name = IF "last_name" \in keys THEN body.last_name ELSE @,
                !.email = IF "email" \in keys THEN body.email ELSE @,
                !.phone_number = IF "phone_number" \in keys
                                 THEN body.phone_number ELSE @,
                !.birth_date = IF "birth_date" \in keys THEN body.birth_date ELSE @,
                !.info = IF "info" \in keys THEN body.info ELSE @,
                !.updated_at = IF keys # {} THEN time ELSE @]
        new_table == [i \in 1..Len(table) |->
                         IF table[i].id = loaded.id
                         THEN written(table[i]) ELSE table[i]]
    IN  IF \A i \in 1..Len(table) : table[i].id # loaded.id
        THEN Stored(table, seq, StaleDataError, 0)
        ELSE db_commit(table, seq, new_table, seq,
                       CHOOSE row \in Rows(new_table) : row.id = loaded.id)

\* what the route answers with the value the second half returned
SessionAnswer(stored, status_code) ==
    IF stored.result = StaleDataError
    THEN ContactsOutcome(stored.contacts, stored.contact_seq,
                         InternalServerError, 0)
    ELSE ContactsAnswer(stored, status_code)

\* the handler is suspended at the await after its read
Suspend(slot, req, user, loaded) ==
    /\ sessions' = [sessions EXCEPT
                       ![slot] = Session("suspended", req, user, loaded, Null, 0)]
    /\ UNCHANGED <<users, contacts, contact_seq, now, request, response,
                   background_tasks, commits, scenario, mailbox>>

\* the handler runs to its end and the request is answered
Finish(slot, req, user, loaded, outcome) ==
    /\ sessions' = [sessions EXCEPT
                       ![slot] = Session("done", req, user, loaded,
                                         outcome.response,
                                         Cardinality(Finished) + 1)]
    /\ request' = req
    /\ contacts' = outcome.contacts
    /\ contact_seq' = outcome.contact_seq
    /\ response' = outcome.response
    /\ commits' = outcome.commits
    /\ background_tasks' = <<>>
    /\ UNCHANGED <<users, now, scenario, mailbox>>

\* update_contact up to the await of get_contact_by_id
BeginUpdate ==
    \E slot \in Slots, req \in UpdateContactRequests(now) :
        /\ sessions[slot].phase = "idle"
        /\ req.token \in FreshTokens(now)
        /\ LET user == Depends_get_current_user(users, req.token, now)
               loaded == get_contact_by_id(contacts, req.contact_id, user)
           IN  IF loaded = Null
               THEN Finish(slot, req, user, loaded,
                        ContactsAnswer(Stored(contacts, contact_seq, Null, 0), 200))
               ELSE Suspend(slot, req, user, loaded)

\* update_contact from the setattr loop on
CommitUpdate ==
    \E slot \in Slots :
        /\ sessions[slot].phase = "suspended"
        /\ sessions[slot].request.op = "update_contact"
        /\ LET session == sessions[slot]
           IN  Finish(slot, session.request, session.user, session.loaded,
                   SessionAnswer(flush_update(contacts, contact_seq,
                                     session.loaded, session.request.body, now),
                                 200))

\* ContactService.create_contact up to the await of is_contact_exists
BeginCreate ==
    \E slot \in Slots, req \in CreateContactRequests(now) :
        /\ sessions[slot].phase = "idle"
        /\ req.token \in FreshTokens(now)
        /\ LET user == Depends_get_current_user(users, req.token, now)
           IN  IF is_contact_exists(contacts, req.body.email,
                                    req.body.phone_number, user)
               THEN Finish(slot, req, user, Null,
                        ContactsOutcome(contacts, contact_seq,
                            HTTPException(400,
                                ContactAlreadyExists(req.body.email,
                                                     req.body.phone_number),
                                None),
                            0))
               ELSE Suspend(slot, req, user, Null)

\* ContactRepository.create_contact: add, commit, refresh (ids stay within
\* MaxContacts; an insert the table refuses takes none)
CommitCreate ==
    \E slot \in Slots :
        /\ sessions[slot].phase = "suspended"
        /\ sessions[slot].request.op = "create_contact"
        /\ LET session == sessions[slot]
           IN  /\ create_contact(contacts, contact_seq, session.request.body,
                                 session.user, now).contact_seq <= MaxContacts
               /\ Finish(slot, session.request, session.user, Null,
                       SessionAnswer(create_contact(contacts, contact_seq,
                                         session.request.body, session.user,
                                         now),
                                     201))

\* remove_contact up to the await of get_contact_by_id
BeginRemove ==
    \E slot \in Slots, req \in RemoveContactRequests(now) :
        /\ sessions[slot].phase = "idle"
        /\ req.token \in FreshTokens(now)
        /\ LET user == Depends_get_current_user(users, req.token, now)
               loaded == get_contact_by_id(contacts, req.contact_id, user)
           IN  IF loaded = Null
               THEN Finish(slot, req, user, loaded,
                        ContactsAnswer(Stored(contacts, contact_seq, Null, 0), 200))
               ELSE Suspend(slot, req, user, loaded)

\* remove_contact from db.delete on: DELETE ... WHERE id = :id; a DELETE that
\* matches no row only warns
CommitRemove ==
    \E slot \in Slots :
        /\ sessions[slot].phase = "suspended"
        /\ sessions[slot].request.op = "remove_contact"
        /\ LET session == sessions[slot]
           IN  Finish(slot, session.request, session.user, session.loaded,
                   SessionAnswer(db_commit(contacts, contact_seq,
                                     delete(contacts, session.loaded),
                                     contact_seq, session.loaded),
                                 200))

ConcurrentContactsNext ==
    \/ BeginUpdate
    \/ CommitUpdate
    \/ BeginCreate
    \/ CommitCreate
    \/ BeginRemove
    \/ CommitRemove

ConcurrentContactsSpec == ContactsInit /\ [][ConcurrentContactsNext]_vars

\* ----------------------------------- register requests at the same time
\* register_user awaits the email lookup, the username lookup and the insert
\* one after the other, and another request can run at each await.
\* mutant: the users table has no constraints
users_unconstrained(table) ==
    TRUE

\* the constraints of the users table: username and email are unique
users_integrity(table) ==
    \A i, j \in 1..Len(table) :
        i # j => /\ table[i].username # table[j].username
                 /\ table[i].email # table[j].email

\* lines 57-63 against the table as it is at the commit: the flush raises
\* IntegrityError when the new row breaks a constraint, nothing is stored and
\* no email is queued
register_insert(table, user_data, salt, avatar) ==
    LET outcome == register_create(table, user_data, salt, avatar)
    IN  IF users_integrity(outcome.users)
        THEN outcome
        ELSE Outcome(table, InternalServerError, <<>>, 0)

\* the handler is suspended at the await after a lookup
SuspendRegister(slot, phase, req, environment) ==
    /\ sessions' = [sessions EXCEPT
                       ![slot] = Session(phase, req, Null, environment, Null, 0)]
    /\ UNCHANGED <<users, contacts, contact_seq, now, request, response,
                   background_tasks, commits, scenario, mailbox>>

\* the handler runs to its end and the request is answered
FinishRegister(slot, req, environment, outcome) ==
    /\ sessions' = [sessions EXCEPT
                       ![slot] = Session("done", req, Null, environment,
                                         outcome.response,
                                         Cardinality(Finished) + 1)]
    /\ request' = req
    /\ users' = outcome.users
    /\ response' = outcome.response
    /\ background_tasks' = outcome.background_tasks
    /\ commits' = outcome.commits
    /\ UNCHANGED <<now, contacts, contact_seq, scenario, mailbox>>

\* lines 44-49: the email lookup; the salt bcrypt will draw and what Gravatar
\* will answer come with the request
LookupEmail ==
    \E slot \in Slots, user_data \in UserCreate, salt \in Salts,
       avatar \in Avatars :
        /\ sessions[slot].phase = "idle"
        /\ LET req == Request("register", user_data.username, user_data.email,
                              user_data.password, user_data.role, Null)
               environment == [salt |-> salt, avatar |-> avatar]
           IN  IF get_user_by_email(users, user_data.email) # Null
               THEN FinishRegister(slot, req, environment,
                        Outcome(users,
                                HTTPException(409, USER_EMAIL_ALREADY_EXISTS, None),
                                <<>>, 0))
               ELSE SuspendRegister(slot, "email_free", req, environment)

\* lines 51-56: the username lookup
LookupUsername ==
    \E slot \in Slots :
        /\ sessions[slot].phase = "email_free"
        /\ LET session == sessions[slot]
           IN  IF get_user_by_username(users, session.request.username) # Null
               THEN FinishRegister(slot, session.request, session.loaded,
                        Outcome(users,
                                HTTPException(409, USER_NAME_ALREADY_EXISTS, None),
                                <<>>, 0))
               ELSE SuspendRegister(slot, "username_free", session.request,
                                    session.loaded)

\* lines 57-63: hash, create_user (add, commit, refresh), queue the email
InsertUser ==
    \E slot \in Slots :
        /\ sessions[slot].phase = "username_free"
        /\ LET session == sessions[slot]
               user_data == [username |-> session.request.username,
                             email |-> session.request.email,
                             password |-> session.request.password,
                             role |-> session.request.role]
           IN  FinishRegister(slot, session.request, session.loaded,
                   register_insert(users, user_data, session.loaded.salt,
                                   session.loaded.avatar))

ConcurrentRegisterNext ==
    \/ LookupEmail
    \/ LookupUsername
    \/ InsertUser

ConcurrentRegisterSpec == Init /\ [][ConcurrentRegisterNext]_vars


\* ======================================================================
\* Properties
\* ======================================================================
\* a step that serves a request of the given operation (Tick serves none)
Served(op) == now' = now /\ request'.op = op

UserWithEmail(table, email) == {u \in Rows(table) : u.email = email}
UserWithUsername(table, username) == {u \in Rows(table) : u.username = username}

\* C1: register with a taken email answers 409 DuplicateEmail; with a fresh
\* email and a taken username 409 DuplicateUsername; the email is checked
\* first; a failing register changes no user and queues no email.
C1_RegisterDuplicate ==
    [][Served("register") =>
        LET email_taken == UserWithEmail(users, request'.email) # {}
            username_taken == UserWithUsername(users, request'.username) # {}
        IN  /\ email_taken =>
                 response' = HTTPException(409, USER_EMAIL_ALREADY_EXISTS, None)
            /\ (~email_taken /\ username_taken) =>
                 response' = HTTPException(409, USER_NAME_ALREADY_EXISTS, None)
            /\ (email_taken \/ username_taken) =>
                 /\ users' = users
                 /\ background_tasks' = <<>>]_vars

\* a register whose email and username are held by two different users was
\* answered DuplicateEmail
C1_Witness ==
    /\ request.op = "register"
    /\ response = HTTPException(409, USER_EMAIL_ALREADY_EXISTS, None)
    /\ \E u \in UserWithUsername(users, request.username) :
           u.email # request.email
    /\ UserWithEmail(users, request.email) # {}

\* C2: a register with fresh email and fresh username appends exactly one
\* user, unconfirmed, whose hashed_password is a digest of the supplied
\* password, queues one confirmation email to that user, and answers 201 with
\* the created user's id, username, email, avatar and role only.
C2_RegisterSuccess ==
    [][(/\ Served("register")
        /\ UserWithEmail(users, request'.email) = {}
        /\ UserWithUsername(users, request'.username) = {}) =>
        LET new_user == users'[Len(users')]
        IN  /\ Len(users') = Len(users) + 1
            /\ SubSeq(users', 1, Len(users)) = users
            /\ new_user.username = request'.username
            /\ new_user.email = request'.email
            /\ new_user.confirmed = FALSE
            /\ new_user.hashed_password \in Hashes
            /\ verify_password(request'.password, new_user.hashed_password)
            /\ background_tasks'
                 = <<send_confirm_email(request'.email, request'.username)>>
            /\ response'.status = 201
            /\ DOMAIN response'.body = {"id", "username", "email", "avatar", "role"}
            /\ response'.body.id = new_user.id
            /\ response'.body.username = request'.username
            /\ response'.body.email = request'.email]_vars

\* C3: login with an existing username and the matching password while the
\* user is unconfirmed answers 401 NotConfirmed, not InvalidCredentials, and
\* carries no access token.
C3_LoginNotConfirmed ==
    [][Served("login") =>
        \A u \in UserWithUsername(users, request'.username) :
            (verify_password(request'.password, u.hashed_password) /\ ~u.confirmed) =>
                /\ response'.status = 401
                /\ response'.detail = USER_NOT_CONFIRMED
                /\ response'.detail # INVALID_CREDENTIALS
                /\ response'.body = Null]_vars

C3_Witness ==
    /\ request.op = "login"
    /\ response.detail = USER_NOT_CONFIRMED
    /\ \E u \in UserWithUsername(users, request.username) :
           verify_password(request.password, u.hashed_password) /\ ~u.confirmed

\* C4: login with an unknown username and login with a known username and a
\* wrong password get the same response, 401 InvalidCredentials with the same
\* headers, whatever the known user's confirmed flag.
InvalidCredentialsResponse == HTTPException(401, INVALID_CREDENTIALS, "Bearer")

C4_LoginInvalidCredentials ==
    [][Served("login") =>
        LET known == UserWithUsername(users, request'.username)
        IN  /\ known = {} => response' = InvalidCredentialsResponse
            /\ \A u \in known :
                   ~verify_password(request'.password, u.hashed_password) =>
                       response' = InvalidCredentialsResponse]_vars

\* a confirmed user's wrong password was answered InvalidCredentials
C4_Witness ==
    /\ request.op = "login"
    /\ response = InvalidCredentialsResponse
    /\ \E u \in UserWithUsername(users, request.username) :
           u.confirmed /\ ~verify_password(request.password, u.hashed_password)

\* C5: confirm-email with an invalid token, or a token whose subject is no
\* user's email, answers 400 "Verification error" and changes no user; with a
\* valid token of an unconfirmed user it sets that user's confirmed flag,
\* answers "confirmed" and changes nothing else.
C5_ConfirmEmail ==
    [][Served("confirmed_email") =>
        LET token == request'.token
            valid == token_verifies(token, now)
            subject == UserWithEmail(users, token.sub)
        IN  /\ (~valid \/ subject = {}) =>
                 /\ response' = HTTPException(400, VERIFICATION_ERROR, None)
                 /\ users' = users
            /\ (valid /\ \E u \in subject : ~u.confirmed) =>
                 /\ response' = MessageResponse(EMAIL_CONFIRMED)
                 /\ Len(users') = Len(users)
                 /\ \A i \in 1..Len(users) :
                        users'[i] = IF users[i].email = token.sub
                                    THEN [users[i] EXCEPT !.confirmed = TRUE]
                                    ELSE users[i]]_vars

\* a user was confirmed while another user stayed unconfirmed
C5_Witness ==
    /\ request.op = "confirmed_email"
    /\ response = MessageResponse(EMAIL_CONFIRMED)
    /\ \E u \in UserWithEmail(users, request.token.sub) : u.confirmed
    /\ \E u \in Rows(users) : u.email # request.token.sub /\ ~u.confirmed

\* C6: confirm-email with a valid token of an already confirmed user answers
\* "already confirmed" with status 200, commits nothing and leaves the
\* directory as it was.
C6_ConfirmEmailIdempotent ==
    [][Served("confirmed_email") =>
        LET token == request'.token
        IN  (/\ token_verifies(token, now)
             /\ \E u \in UserWithEmail(users, token.sub) : u.confirmed) =>
                /\ response' = MessageResponse(EMAIL_ALREADY_CONFIRMED)
                /\ response'.status = 200
                /\ commits' = 0
                /\ users' = users]_vars

C6_Witness ==
    /\ request.op = "confirmed_email"
    /\ response = MessageResponse(EMAIL_ALREADY_CONFIRMED)
    /\ commits = 0
    /\ \E u \in UserWithEmail(users, request.token.sub) : u.confirmed

\* C7: request-confirmation-resend changes no user; it queues a confirmation
\* email iff a user with the email exists and is unconfirmed; it answers
\* "already confirmed" for a confirmed user and "check your email" otherwise.
C7_RequestEmail ==
    [][Served("request_email") =>
        LET known == UserWithEmail(users, request'.email)
            unconfirmed == {u \in known : ~u.confirmed}
        IN  /\ users' = users
            /\ commits' = 0
            /\ (background_tasks' # <<>>) <=> (unconfirmed # {})
            /\ \A u \in unconfirmed :
                   background_tasks' = <<send_confirm_email(u.email, u.username)>>
            /\ response' = IF \E u \in known : u.confirmed
                           THEN MessageResponse(EMAIL_ALREADY_CONFIRMED)
                           ELSE MessageResponse(CHECK_YOUR_EMAIL)]_vars

C7_Witness ==
    /\ request.op = "request_email"
    /\ response = MessageResponse(CHECK_YOUR_EMAIL)
    /\ Len(background_tasks) = 1
    /\ \E u \in UserWithEmail(users, request.email) : ~u.confirmed

\* the directory without the user of that email
DirectoryWithout(table, email) ==
    SelectSeq(table, LAMBDA u : u.email # email)

\* what the same resend or reset request is answered when no user has the email
ResponseForUnknown(table, req) ==
    IF req.op = "request_email"
    THEN request_email(DirectoryWithout(table, req.email), req.email).response
    ELSE reset_password_request(DirectoryWithout(table, req.email),
                                [email |-> req.email, password |-> req.password],
                                CHOOSE salt \in Salts : TRUE, now).response

\* C8 as claimed: a resend or reset request is answered the same whether or
\* not a user with the email exists, in any confirmation status.
C8_SameResponseWhetherEmailExists ==
    [][(Served("request_email") \/ Served("reset_password")) =>
        response' = ResponseForUnknown(users, request')]_vars

\* C8 amended: the resend answers an unconfirmed user's email as it answers an
\* unknown one, and the reset request answers a confirmed user's email as it
\* answers an unknown one; a confirmed user's resend is answered "already
\* confirmed" and an unconfirmed user's reset request 400 EmailNotConfirmed.
C8_SameResponseAmended ==
    [][(Served("request_email") \/ Served("reset_password")) =>
        LET known == UserWithEmail(users, request'.email)
            confirmed == \E u \in known : u.confirmed
            unconfirmed == \E u \in known : ~u.confirmed
            resend == request'.op = "request_email"
        IN  /\ (resend /\ ~confirmed) =>
                 response' = ResponseForUnknown(users, request')
            /\ (~resend /\ ~unconfirmed) =>
                 response' = ResponseForUnknown(users, request')
            /\ (resend /\ confirmed) =>
                 response' = MessageResponse(EMAIL_ALREADY_CONFIRMED)
            /\ (~resend /\ unconfirmed) =>
                 response' = HTTPException(400, EMAIL_NOT_CONFIRMED, None)]_vars

\* a confirmed user's reset request was answered like an unknown email's
C8_Witness ==
    /\ request.op = "reset_password"
    /\ \E u \in UserWithEmail(users, request.email) : u.confirmed
    /\ response = ResponseForUnknown(users, request)

\* C9: request-password-reset commits nothing and changes no user; an unknown
\* email is answered "check your email" with no task, an unconfirmed user 400
\* EmailNotConfirmed with no task, a confirmed user "check your email" with
\* one reset email whose token carries the email and a digest of the new
\* password.
C9_ResetRequestNoWrite ==
    [][Served("reset_password") =>
        LET known == UserWithEmail(users, request'.email)
        IN  /\ users' = users
            /\ commits' = 0
            /\ known = {} =>
                 /\ response' = MessageResponse(CHECK_YOUR_EMAIL)
                 /\ background_tasks' = <<>>
            /\ \A u \in known :
                 IF ~u.confirmed
                 THEN /\ response' = HTTPException(400, EMAIL_NOT_CONFIRMED, None)
                      /\ background_tasks' = <<>>
                 ELSE /\ response' = MessageResponse(CHECK_YOUR_EMAIL)
                      /\ Len(background_tasks') = 1
                      /\ LET sent == background_tasks'[1]
                         IN  /\ sent.task = "send_reset_password_email"
                             /\ sent.to_email = request'.email
                             /\ sent.username = u.username
                             /\ sent.reset_token.sub = request'.email
                             /\ sent.reset_token.password \in Hashes
                             /\ verify_password(request'.password,
                                                sent.reset_token.password)
                             /\ token_verifies(sent.reset_token, now)]_vars

\* a reset email was queued for a user whose stored digest is not the token's
C9_Witness ==
    /\ request.op = "reset_password"
    /\ Len(background_tasks) = 1
    /\ \E u \in UserWithEmail(users, request.email) :
           u.hashed_password # background_tasks[1].reset_token.password

\* C10: confirm-password-reset with a token that does not verify (tampered,
\* malformed, expired) or carries no password digest answers 400
\* InvalidOrExpiredToken; with a valid token whose email is no user's it
\* answers 404 UserNotFound; in both cases no hashed_password changes.
C10_ConfirmResetRejects ==
    [][Served("confirm_reset_password") =>
        LET token == request'.token
            usable == token_verifies(token, now) /\ token.password # Null
            unchanged == /\ Len(users') = Len(users)
                         /\ \A i \in 1..Len(users) :
                                users'[i].hashed_password = users[i].hashed_password
        IN  /\ ~usable =>
                 /\ response' = HTTPException(400, INVALID_OR_EXPIRED_TOKEN, None)
                 /\ unchanged
            /\ (usable /\ UserWithEmail(users, token.sub) = {}) =>
                 /\ response' = HTTPException(404, USER_WITH_SUCH_EMAIL_NOT_FOUND, None)
                 /\ unchanged]_vars

\* an expired reset token of an existing user, carrying another digest than
\* the stored one, was refused
C10_Witness ==
    /\ request.op = "confirm_reset_password"
    /\ response = HTTPException(400, INVALID_OR_EXPIRED_TOKEN, None)
    /\ request.token.sig = "signed"
    /\ request.token.password # Null
    /\ \E u \in UserWithEmail(users, request.token.sub) :
           u.hashed_password # request.token.password

\* C11: confirm-password-reset with a verifying token that carries a digest
\* and whose email is a user's answers "password changed" and sets that
\* user's hashed_password to the token's digest; the user's other columns and
\* every other user are unchanged; afterwards a login of that (confirmed)
\* user succeeds with the password the digest was made of and is refused as
\* InvalidCredentials with any other, the old one included.
C11_ConfirmResetSuccess ==
    [][Served("confirm_reset_password") =>
        LET token == request'.token
        IN  (/\ token_verifies(token, now)
             /\ token.password # Null
             /\ UserWithEmail(users, token.sub) # {}) =>
                /\ response' = MessageResponse(PASSWORD_CHANGED)
                /\ Len(users') = Len(users)
                /\ \A i \in 1..Len(users) :
                       IF users[i].email = token.sub
                       THEN users'[i] =
                              [users[i] EXCEPT !.hashed_password = token.password]
                       ELSE users'[i] = users[i]
                /\ \A u \in UserWithEmail(users', token.sub), p \in Passwords :
                       LET answer == login_user(users', u.username, p, now).response
                       IN  u.confirmed =>
                             IF verify_password(p, token.password)
                             THEN /\ answer.status = 200
                                  /\ answer.body.access_token.sub = u.username
                             ELSE answer = InvalidCredentialsResponse]_vars

\* the password of a confirmed user who registered with "12345678" was reset
\* to "password" while another user is in the directory
C11_Witness ==
    /\ request.op = "confirm_reset_password"
    /\ response = MessageResponse(PASSWORD_CHANGED)
    /\ Len(users) = 2
    /\ \E u \in UserWithEmail(users, "agent008@gmail.com") :
           /\ u.confirmed
           /\ request.token.sub = u.email
           /\ u.hashed_password = request.token.password
           /\ verify_password("password", u.hashed_password)

\* ----------------------------------------------------------- contacts
\* the user a fresh access token was issued to
Caller(req) == CHOOSE u \in Rows(users) : u.username = req.token.sub

\* a request of the given operation was served under a fresh access token
ServedTo(op) == Served(op) /\ request'.token \in FreshTokens(now)

ContactsOf(table, user) == {c \in Rows(table) : c.user_id = user.id}

\* C12: contact create answers 400 DuplicateContact whenever some contact of
\* any owner has the new one's email or phone number, and then the table is
\* unchanged; otherwise exactly one contact is added, owned by the caller.
C12_CreateDuplicate ==
    [][ServedTo("create_contact") =>
        LET body == request'.body
            taken == \E c \in Rows(contacts) :
                         c.email = body.email \/ c.phone_number = body.phone_number
        IN  IF taken
            THEN /\ response'.status = 400
                 /\ response'.detail =
                        ContactAlreadyExists(body.email, body.phone_number)
                 /\ contacts' = contacts
            ELSE /\ Len(contacts') = Len(contacts) + 1
                 /\ SubSeq(contacts', 1, Len(contacts)) = contacts
                 /\ contacts'[Len(contacts')].user_id = Caller(request').id
                 /\ contacts'[Len(contacts')].email = body.email
                 /\ contacts'[Len(contacts')].phone_number = body.phone_number]_vars

\* C13: for a contact c of user A and a caller B other than A, get, update
\* and remove of c's id answer 404 ContactNotFound, hand out nothing of c,
\* and leave c, and the whole table, as it was.
C13_NotOwnedIsNotFound ==
    [][\A op \in {"get_contact", "update_contact", "remove_contact"} :
         ServedTo(op) =>
            \A c \in Rows(contacts) :
                (c.id = request'.contact_id /\ c.user_id # Caller(request').id) =>
                    /\ response' = HTTPException(404, CONTACT_NOT_FOUND, None)
                    /\ contacts' = contacts
                    /\ commits' = 0]_vars

\* agent007 asked to delete the contact of agent008 and got 404
C13_Witness ==
    /\ request.op = "remove_contact"
    /\ request.token \in FreshTokens(now)
    /\ Caller(request).username = "agent007"
    /\ response.status = 404
    /\ \E c \in Rows(contacts) :
           c.id = request.contact_id /\ c.user_id # Caller(request).id

\* the contacts a response of a read operation hands out
ContactsRead(op, resp) ==
    IF resp.status # 200
    THEN {}
    ELSE IF op = "get_contact"
         THEN {resp.body}
         ELSE {resp.body[i] : i \in 1..Len(resp.body)}

\* C14: every contact a read operation (list, get, upcoming birthdays) hands
\* to a caller is a contact that caller owns.
C14_ReadsOwnerFiltered ==
    [][\A op \in {"get_upcoming_birthdays", "get_contacts", "get_contact"} :
         ServedTo(op) =>
            \A item \in ContactsRead(op, response') :
                \E c \in ContactsOf(contacts, Caller(request')) :
                    ContactResponse(c) = item]_vars

\* C14 without the birthday query: list and get hand out only contacts of
\* the caller
C14_ListAndGetOwnerFiltered ==
    [][\A op \in {"get_contacts", "get_contact"} :
         ServedTo(op) =>
            \A item \in ContactsRead(op, response') :
                \E c \in ContactsOf(contacts, Caller(request')) :
                    ContactResponse(c) = item]_vars

\* part occurs in text as a run of consecutive characters
IsSubstring(part, text) ==
    \E i \in 0..(Len(text) - Len(part)) :
        SubSeq(text, i + 1, i + Len(part)) = part

\* the first (at most) limit elements of rows after its first skip ones
Page(rows, skip, limit) ==
    [i \in 1..Min(limit, IF Len(rows) > skip THEN Len(rows) - skip ELSE 0) |->
        rows[skip + i]]

\* C15: list returns, in storage order, the caller's contacts whose
\* first_name, last_name and email each contain the corresponding filter as a
\* substring (an empty filter matches all), without the first skip matches
\* and at most limit of the rest; it changes no state.
C15_List ==
    [][ServedTo("get_contacts") =>
        LET query == request'.query
            matches == SelectSeq(contacts, LAMBDA c :
                           /\ c.user_id = Caller(request').id
                           /\ IsSubstring(query.first_name, c.first_name)
                           /\ IsSubstring(query.last_name, c.last_name)
                           /\ IsSubstring(query.email, c.email))
        IN  /\ response' =
                 BodyResponse(200,
                     ContactResponses(Page(matches, query.skip, query.limit)))
            /\ contacts' = contacts
            /\ contact_seq' = contact_seq
            /\ users' = users
            /\ commits' = 0]_vars

Overwritten(c, body, row) ==
    /\ row.first_name = body.first_name
    /\ row.last_name = body.last_name
    /\ row.email = body.email
    /\ row.phone_number = body.phone_number
    /\ row.birth_date = IF "birth_date" \in body.fields_set
                        THEN body.birth_date ELSE c.birth_date
    /\ row.info = IF "info" \in body.fields_set THEN body.info ELSE c.info
    /\ row.id = c.id
    /\ row.user_id = c.user_id
    /\ row.created_at = c.created_at

\* C17: update of a contact the caller owns overwrites the fields the request
\* supplied and returns the updated contact; the fields it left out, the id,
\* the owner and created_at are unchanged, and so is every other contact;
\* when the contact is missing or not the caller's the answer is 404 and
\* nothing is written.
C17_UpdateFrame ==
    [][ServedTo("update_contact") =>
        LET body == request'.body
            position == {i \in 1..Len(contacts) :
                            /\ contacts[i].id = request'.contact_id
                            /\ contacts[i].user_id = Caller(request').id}
        IN  IF position = {}
            THEN /\ response' = HTTPException(404, CONTACT_NOT_FOUND, None)
                 /\ contacts' = contacts
                 /\ commits' = 0
            ELSE /\ Len(contacts') = Len(contacts)
                 /\ \A i \in 1..Len(contacts) :
                        IF i \in position
                        THEN /\ Overwritten(contacts[i], body, contacts'[i])
                             /\ response' =
                                  BodyResponse(200, ContactResponse(contacts'[i]))
                        ELSE contacts'[i] = contacts[i]]_vars

\* C18: remove of a contact the caller owns deletes exactly that contact and
\* returns it as it was; a get of its id by the caller is then answered 404
\* and every other contact is unchanged; remove of a missing or not-owned id
\* answers 404 and leaves the table as it was.
C18_Remove ==
    [][ServedTo("remove_contact") =>
        LET position == {i \in 1..Len(contacts) :
                            /\ contacts[i].id = request'.contact_id
                            /\ contacts[i].user_id = Caller(request').id}
        IN  IF position = {}
            THEN /\ response' = HTTPException(404, CONTACT_NOT_FOUND, None)
                 /\ contacts' = contacts
                 /\ commits' = 0
            ELSE \A i \in position :
                    /\ response' = BodyResponse(200, ContactResponse(contacts[i]))
                    /\ contacts' = [j \in 1..(Len(contacts) - 1) |->
                                       IF j < i THEN contacts[j] ELSE contacts[j + 1]]
                    /\ api_get_contact(contacts', contact_seq', request'.contact_id,
                                       Caller(request')).response
                         = HTTPException(404, CONTACT_NOT_FOUND, None)]_vars

\* the caller deleted one of its contacts and still has another one
C18_Witness ==
    /\ request.op = "remove_contact"
    /\ response.status = 200
    /\ response.body.id = request.contact_id
    /\ \A c \in Rows(contacts) : c.id # request.contact_id
    /\ ContactsOf(contacts, Caller(request)) # {}

ContactsOperations ==
    {"get_upcoming_birthdays", "get_contacts", "get_contact", "create_contact",
     "update_contact", "remove_contact"}

\* C20: every contacts operation called without a bearer token, or with one
\* that does not verify (broken signature, expired), is answered 401
\* Unauthorized, hands out no contact and leaves the contacts table as it was.
C20_Unauthorized ==
    [][\A op \in ContactsOperations :
         (/\ Served(op)
          /\ request'.token = Null \/ ~token_verifies(request'.token, now)) =>
            /\ response'.status = 401
            /\ response'.detail = UNAUTHORIZED
            /\ response'.body = Null
            /\ contacts' = contacts
            /\ contact_seq' = contact_seq
            /\ commits' = 0]_vars

\* the owner of contact 1 asked to delete it with an expired access token and
\* was refused; the contact is still there
C20_Witness ==
    /\ request.op = "remove_contact"
    /\ request.token = ExpiredToken(now)
    /\ response.status = 401
    /\ \E c \in Rows(contacts) :
           /\ c.id = request.contact_id
           /\ c.user_id = get_user_by_username(users, request.token.sub).id

\* C19: in the sequence register A, login, confirm, login, create, create
\* with the same email, delete, get: A is registered unconfirmed, the first
\* login is answered 401 NotConfirmed, the confirmation succeeds, the second
\* login 200 with an access token, the create 201, the second create 400
\* DuplicateContact, the delete 200 and the get of the deleted id 404.
C19_EndToEnd ==
    /\ scenario.step = 1 =>
           /\ Len(users) = 1
           /\ users[1].username = scenario.user_data.username
           /\ ~users[1].confirmed
    /\ scenario.step = 2 =>
           response = HTTPException(401, USER_NOT_CONFIRMED, None)
    /\ scenario.step = 3 =>
           /\ response = MessageResponse(EMAIL_CONFIRMED)
           /\ users[1].confirmed
    /\ scenario.step = 4 =>
           /\ response.status = 200
           /\ response.body.access_token.sub = scenario.user_data.username
           /\ token_verifies(response.body.access_token, now)
    /\ scenario.step = 5 =>
           /\ response.status = 201
           /\ Len(contacts) = 1
    /\ scenario.step = 6 =>
           /\ response.status = 400
           /\ response.detail =
                  ContactAlreadyExists(request.body.email, request.body.phone_number)
    /\ scenario.step = 7 =>
           /\ response.status = 200
           /\ response.body.id = scenario.contact_id
    /\ scenario.step = 8 =>
           response = HTTPException(404, CONTACT_NOT_FOUND, None)


\* ------------------------------------------------------------------- C21
\* C21: the access token of the last successful login has the username of
\* the login as its subject; while its time-to-live has not elapsed it
\* authenticates that user, and from its expiry on it authenticates nobody,
\* at the present time and at every later one.
C21_AccessTokenLifetime ==
    (request.op = "login" /\ response.status = 200) =>
        LET token == response.body.access_token
            issued_at == token.exp - ACCESS_TOKEN_TTL
            current_user == get_current_user(users, token, now)
        IN  /\ token.sub = request.username
            /\ issued_at <= now
            /\ now < issued_at + ACCESS_TOKEN_TTL =>
                   /\ current_user # Null
                   /\ current_user.username = request.username
            /\ now >= issued_at + ACCESS_TOKEN_TTL =>
                   /\ current_user = Null
                   /\ \A time \in now..(MaxTime + ACCESS_TOKEN_TTL) :
                          /\ ~token_verifies(token, time)
                          /\ get_current_user(users, token, time) = Null

\* the token of a successful login has outlived its time-to-live
C21_Witness ==
    /\ request.op = "login"
    /\ response.status = 200
    /\ now >= response.body.access_token.exp
    /\ get_current_user(users, response.body.access_token,
                        response.body.access_token.exp - 1) # Null


\* ------------------------------------------------------------------- C22
\* C22: a row gets its role when register creates it, from the request body,
\* and no request of the auth flow changes the role of a row that exists:
\* across every step each existing user keeps its id and its role, and a new
\* row appears only through register, one at a time, with the role of the
\* body.
C22_RoleAssignedAtCreation ==
    [][/\ Len(users') >= Len(users)
       /\ \A i \in 1..Len(users) :
              /\ users'[i].id = users[i].id
              /\ users'[i].role = users[i].role
       /\ Len(users') > Len(users) =>
              /\ request'.op = "register"
              /\ response'.status \in {201, 500}
              /\ Len(users') = Len(users) + 1
              /\ users'[Len(users')].role = request'.role]_vars

\* a user created with the role "user" went through a password reset and
\* still has that role, next to a user created as admin
C22_Witness ==
    /\ request.op = "confirm_reset_password"
    /\ response = MessageResponse(PASSWORD_CHANGED)
    /\ \E u \in UserWithEmail(users, request.token.sub) :
           /\ u.role = "user"
           /\ u.confirmed
           /\ u.hashed_password = request.token.password
    /\ \E v \in Rows(users) : v.role = "admin"


\* ------------------------------------------------------------------- C23
\* C23: when the avatar could not be obtained during a register with fresh
\* email and username (the new row's avatar stays unset), the user is still
\* persisted and the register still answers 201 with the created user.
C23_AvatarFailureDoesNotBlock ==
    [][(/\ Served("register")
        /\ register_conflict(users, request') = None
        /\ Len(users') = Len(users) + 1
        /\ users'[Len(users')].avatar = None) =>
            /\ SubSeq(users', 1, Len(users)) = users
            /\ users'[Len(users')].email = request'.email
            /\ response' = BodyResponse(201, UserSchema(users'[Len(users')]))]_vars


\* ------------------------------------------------------------------- C24
\* C24: the reset token that request-password-reset queues for a user differs
\* from the access token a login of that user would get at the same moment in
\* its claims (it carries a digest, the access token none), lives longer than
\* the access token, and neither is accepted where the other belongs: the
\* reset token neither authenticates a caller nor confirms an email, the
\* access token does not confirm a reset.
C24_TokenClasses ==
    [][(Served("reset_password") /\ background_tasks' # <<>>) =>
        LET reset_token == background_tasks'[1].reset_token
            user == get_user_by_email(users, request'.email)
            access_token == login_token_of(user, now)
        IN  /\ reset_token.password # Null
            /\ access_token.password = Null
            /\ reset_token.exp - now > access_token.exp - now
            /\ get_current_user(users, reset_token, now) = Null
            /\ confirmed_email(users, reset_token, now).response.status = 400
            /\ confirm_reset_password(users, access_token, now).response.status
                 = 400]_vars


\* ------------------------------------------------------------------- C25
\* C25: no step withdraws a reset token the client holds; after every step,
\* a new reset request and a confirm included, every held token whose
\* time-to-live has not elapsed is one that confirm-password-reset accepts;
\* and every successful confirm leaves the user of the token with the digest
\* embedded in that token, whatever was confirmed before, and every other
\* user as it was.
C25_ResetTokensReplay ==
    [][/\ Len(mailbox') >= Len(mailbox)
       /\ \A i \in 1..Len(mailbox) :
              mailbox'[i].reset_token = mailbox[i].reset_token
       /\ \A i \in 1..Len(mailbox') :
              LET token == mailbox'[i].reset_token
              IN  token_verifies(token, now') =>
                      confirm_reset_password(users', token, now').response
                        = MessageResponse(PASSWORD_CHANGED)
       /\ (Served("confirm_reset_password")
             /\ token_verifies(request'.token, now)) =>
              /\ response' = MessageResponse(PASSWORD_CHANGED)
              /\ Len(users') = Len(users)
              /\ \A k \in 1..Len(users) :
                     IF users[k].email = request'.token.sub
                     THEN users'[k].hashed_password = request'.token.password
                     ELSE users'[k] = users[k]]_vars

\* the older of two reset tokens of one user, with different digests, was
\* confirmed twice and the newer once, the older one last: the user has the
\* older digest again
C25_Witness ==
    /\ request.op = "confirm_reset_password"
    /\ response = MessageResponse(PASSWORD_CHANGED)
    /\ \E i, j \in 1..Len(mailbox) :
           /\ i < j
           /\ mailbox[i].reset_token = request.token
           /\ mailbox[i].followed >= 2
           /\ mailbox[j].followed >= 1
           /\ mailbox[j].reset_token.sub = request.token.sub
           /\ mailbox[j].reset_token.password # request.token.password
           /\ \E u \in UserWithEmail(users, request.token.sub) :
                  u.hashed_password = request.token.password


\* ------------------------------------------------------------------- C27
\* C27: in every state reached by create, update and remove requests of the
\* two users, handled one after another or two at a time with their reads
\* and commits interleaved, no two rows of the contacts table have the same
\* email and no two the same phone number, whoever owns them.
C27_ContactsUnique ==
    \A i, j \in 1..Len(contacts) :
        i # j => /\ contacts[i].id # contacts[j].id
                 /\ contacts[i].email # contacts[j].email
                 /\ contacts[i].phone_number # contacts[j].phone_number


\* two create requests with the same email both passed the duplicate check
\* before either committed; the first commit stored its row, the second was
\* refused by the table, and a third row of another owner is in the table
C27_Witness ==
    \E s, t \in Finished :
        /\ sessions[s].request.op = "create_contact"
        /\ sessions[t].request.op = "create_contact"
        /\ sessions[s].request.body.email = sessions[t].request.body.email
        /\ sessions[t].request.body.birth_date # Null
        /\ sessions[s].order < sessions[t].order
        /\ sessions[s].response.status = 201
        /\ sessions[t].response.status = 500
        /\ Cardinality({c \in Rows(contacts) :
                           c.email = sessions[s].request.body.email}) = 1
        /\ Len(contacts) = 2


\* ------------------------------------------------------------------- C26
\* C26: when two update requests of the owner on the same contact, both with
\* bodies the table accepts, have been handled with their reads and commits
\* interleaved in any way, both were answered 200 and every field that both
\* bodies supplied has the value of the request that committed last.
C26_LastWriterWins ==
    \A s, t \in Finished :
        LET first == sessions[s]
            last == sessions[t]
        IN  (/\ first.order < last.order
             /\ first.request.op = "update_contact"
             /\ last.request.op = "update_contact"
             /\ first.request.contact_id = last.request.contact_id
             /\ first.loaded # Null
             /\ last.loaded # Null
             /\ \A body \in {first.request.body, last.request.body} :
                    "birth_date" \in body.fields_set => body.birth_date # Null) =>
                /\ first.response.status = 200
                /\ last.response.status = 200
                /\ \A c \in Rows(contacts) :
                       c.id = last.request.contact_id =>
                           \A key \in first.request.body.fields_set
                                        \cap last.request.body.fields_set :
                               attribute(c, key)
                                 = attribute(last.request.body, key)


\* ------------------------------------------------------------------- C28
\* C28: in every state no two users have the same username and no two the
\* same email; and of two register requests with the same email or the same
\* username, handled with their lookups and inserts interleaved in any way,
\* at most one is answered 201 and at most one row with that email and one
\* with that username exists.
C28_UsersUnique ==
    /\ \A i, j \in 1..Len(users) :
           i # j => /\ users[i].id # users[j].id
                    /\ users[i].username # users[j].username
                    /\ users[i].email # users[j].email
    /\ \A s, t \in Finished :
           (/\ s # t
            /\ \/ sessions[s].request.email = sessions[t].request.email
               \/ sessions[s].request.username = sessions[t].request.username) =>
               /\ ~(sessions[s].response.status = 201
                      /\ sessions[t].response.status = 201)
               /\ Len(users) <= 1

\* two registers with the same email and different usernames both found the
\* email and their usernames free before either inserted; the first insert
\* created the user, the second was refused by the table
C28_Witness ==
    \E s, t \in Finished :
        /\ sessions[s].request.email = sessions[t].request.email
        /\ sessions[s].request.username # sessions[t].request.username
        /\ sessions[s].order < sessions[t].order
        /\ sessions[s].response.status = 201
        /\ sessions[t].response.status = 500
        /\ sessions[t].loaded.avatar # None
        /\ Len(users) = 1
        /\ users[1].username = sessions[s].request.username


\* ------------------------------------------------------------------- C29
\* C29: across every step no user row disappears, every row keeps its id,
\* username and email, a confirmed row stays confirmed, a row enters the
\* directory unconfirmed, and a row turns confirmed only in a step that
\* serves confirm-email with a verifying token whose subject is the email of
\* that row.
C29_ForwardOnly ==
    [][/\ Len(users') >= Len(users)
       /\ \A i \in 1..Len(users) :
              /\ users'[i].id = users[i].id
              /\ users'[i].username = users[i].username
              /\ users'[i].email = users[i].email
              /\ users[i].confirmed => users'[i].confirmed
              /\ (~users[i].confirmed /\ users'[i].confirmed) =>
                     /\ Served("confirmed_email")
                     /\ token_verifies(request'.token, now)
                     /\ request'.token.sub = users[i].email
       /\ \A i \in (Len(users) + 1)..Len(users') :
              ~users'[i].confirmed]_vars

\* confirm-email has just turned one user confirmed while the other user of
\* the directory is still unconfirmed
C29_Witness ==
    /\ request.op = "confirmed_email"
    /\ response = MessageResponse(EMAIL_CONFIRMED)
    /\ commits = 1
    /\ \E u, v \in Rows(users) :
           /\ u.email = request.token.sub
           /\ u.confirmed
           /\ v.email # request.token.sub
           /\ ~v.confirmed


\* ------------------------------------------------------------------- C30
\* C30: a login is answered 200 with an access token exactly when a user of
\* that username exists, the password verifies against the stored digest and
\* the user is confirmed; the token then has that username as its subject,
\* carries no digest and verifies at that time; any other login is answered
\* 401 without a token; and no login changes the users table, the contacts
\* table or its id sequence, commits or queues a task.
C30_LoginIssuesOnlyToConfirmed ==
    [][Served("login") =>
        LET entitled == {u \in UserWithUsername(users, request'.username) :
                            /\ verify_password(request'.password,
                                               u.hashed_password)
                            /\ u.confirmed}
        IN  /\ users' = users
            /\ contacts' = contacts
            /\ contact_seq' = contact_seq
            /\ commits' = 0
            /\ background_tasks' = <<>>
            /\ response'.status = 200 <=> entitled # {}
            /\ response'.status = 200 =>
                   /\ response'.body.token_type = "bearer"
                   /\ response'.body.access_token.sub = request'.username
                   /\ response'.body.access_token.password = Null
                   /\ token_verifies(response'.body.access_token, now)
                   /\ \E u \in Rows(users') :
                          /\ u.username = response'.body.access_token.sub
                          /\ u.confirmed
            /\ response'.status # 200 =>
                   /\ response'.status = 401
                   /\ response'.body = Null]_vars

\* a confirmed user has logged in at time 1 while the other user of the
\* directory, who could not, is unconfirmed
C30_Witness ==
    /\ request.op = "login"
    /\ response.status = 200
    /\ now = 1
    /\ response.body.access_token.exp = now + ACCESS_TOKEN_TTL
    /\ Len(users) = 2
    /\ \E u, v \in Rows(users) :
           /\ u.username = response.body.access_token.sub
           /\ u.confirmed
           /\ ~v.confirmed

====
